---- MODULE Spec2Model ----
(***************************************************************************)
(* Model of src/fetch.py: a batch job that loads a locality table and an   *)
(* API-key table, fetches one weather observation per locality over HTTP,  *)
(* rotates API keys on rate-limit signals and on a per-key ceiling, and    *)
(* writes the collected records to a dated CSV file.                       *)
(*                                                                         *)
(* fetch_and_save is modelled as one sequential process whose position is  *)
(* pc; every action is one stretch of its code between two loop heads.     *)
(* The environment is the file system (the two input files), the HTTP      *)
(* server (the response of each GET) and the wall clock.                   *)
(***************************************************************************)
EXTENDS Integers, Sequences, FiniteSets, TLC

VARIABLES
    fs_locations,       \* the file at LOCATIONS_CSV: [exists, rows]
    fs_api_keys,        \* the file at API_KEYS_CSV: [exists, rows]
    MAX_CALLS_PER_KEY,  \* module-level configuration value (line 26)
    clock,              \* wall clock, in minutes
    pc,                 \* position of fetch_and_save
    locations,          \* loaded locality rows (station ids)
    api_keys,           \* loaded key list
    row,                \* 1-based index of the locality row of the for loop
    key_idx,
    call_count,
    results,            \* accumulated records
    timestamp,          \* strftime("%Y%m%d_%H%M") taken at line 69
    data,               \* value returned by the last get_weather_data
    calls,              \* history: every HTTP GET made, with the loop state at
                        \* the call and the response
    loads,              \* history: every load_csv call made
    log,                \* history: the log lines emitted, by kind
    out_dirs,           \* directories created under OUTPUT_BASE_DIR
    out_files           \* files written: [dir, name, lines]

vars == <<fs_locations, fs_api_keys, MAX_CALLS_PER_KEY, clock, pc, locations,
          api_keys, row, key_idx, call_count, results, timestamp, data, calls,
          loads, log, out_dirs, out_files>>

----------------------------------------------------------------------------
(* Bounds of the model *)

MaxLocalities == 2
MaxKeys == 2
MaxCeiling == 2
MaxTicks == 1

(* Program constants *)

MinutesPerDay == 1440

\* the localityId column of the locality table: stable, distinct identifiers
StationIds == <<"ZWL001", "ZWL002", "ZWL003", "ZWL004">>

LocalityList(n) == SubSeq(StationIds, 1, n)

KeyList(n) == [i \in 1..n |-> i]

----------------------------------------------------------------------------
(* Values of the Python program *)

None == [type |-> "none", keys |-> {}, str |-> ""]
Str(s) == [type |-> "str", keys |-> {}, str |-> s]
Dict(ks) == [type |-> "dict", keys |-> ks, str |-> ""]

QUOTA_LIMIT_REACHED == Str("QUOTA_LIMIT_REACHED")

\* JSON bodies a 200 response may carry
WeatherBody == Dict({"status", "locality_weather_data"})
NoSectionBody == Dict({"status", "message"})
SentinelBody == Str("QUOTA_LIMIT_REACHED")
Bodies == {WeatherBody, NoSectionBody, SentinelBody}

\* status 0 stands for a requests.RequestException (no response at all)
Responses ==
    {[status |-> 200, body |-> b] : b \in Bodies}
        \cup {[status |-> s, body |-> None] : s \in {429, 500, 0}}

\* Python truthiness of a decoded value
Truthy(d) ==
    CASE d.type = "none" -> FALSE
      [] d.type = "str"  -> d.str # ""
      [] d.type = "dict" -> d.keys # {}

get_weather_data(resp) ==
    IF resp.status = 200 THEN resp.body
    ELSE IF resp.status = 429 THEN QUOTA_LIMIT_REACHED
    ELSE None

IsQuotaSignal(d) == d = QUOTA_LIMIT_REACHED

HasWeatherSection(d) ==
    Truthy(d) /\ d.type = "dict" /\ "locality_weather_data" \in d.keys

AdvanceKey(k) == k + 1

\* variant: the ceiling is compared with > instead of >=
CeilingReached_Strict(count, ceiling) == count > ceiling

CeilingReached(count, ceiling) == count >= ceiling

\* strftime("%Y%m%d") and strftime("%Y%m%d_%H%M") of a clock value
FormatDate(t) == t \div MinutesPerDay
FormatMinute(t) == <<t \div MinutesPerDay, t % MinutesPerDay>>
DatePart(ts) == ts[1]

----------------------------------------------------------------------------
Init ==
    /\ fs_locations \in [exists : BOOLEAN, rows : {LocalityList(n) : n \in 0..MaxLocalities}]
    /\ fs_api_keys \in [exists : BOOLEAN, rows : {KeyList(n) : n \in 0..MaxKeys}]
    /\ ~fs_locations.exists => fs_locations.rows = <<>>
    /\ ~fs_api_keys.exists => fs_api_keys.rows = <<>>
    /\ MAX_CALLS_PER_KEY \in 0..MaxCeiling
    /\ clock = MinutesPerDay - 1
    /\ pc = "load_locations"
    /\ locations = <<>>
    /\ api_keys = <<>>
    /\ row = 0
    /\ key_idx = 0
    /\ call_count = 0
    /\ results = <<>>
    /\ timestamp = <<0, 0>>
    /\ data = None
    /\ calls = <<>>
    /\ loads = <<>>
    /\ log = <<>>
    /\ out_dirs = {}
    /\ out_files = {}

\* the wall clock advances while fetch_and_save runs
Tick ==
    /\ pc \notin {"done", "raised"}
    /\ clock < MinutesPerDay - 1 + MaxTicks
    /\ clock' = clock + 1
    /\ UNCHANGED <<fs_locations, fs_api_keys, MAX_CALLS_PER_KEY, pc, locations,
                   api_keys, row, key_idx, call_count, results, timestamp, data,
                   calls, loads, log, out_dirs, out_files>>

\* variant: the FileNotFoundError is logged but not re-raised
load_csv_Swallow(file) == [raised |-> FALSE, rows |-> file.rows]

\* load_csv: the rows of the file, or the FileNotFoundError it re-raises
load_csv(file) == IF file.exists THEN [raised |-> FALSE, rows |-> file.rows]
                  ELSE [raised |-> TRUE, rows |-> <<>>]

LoadLocations ==
    /\ pc = "load_locations"
    /\ loads' = Append(loads, "locations_csv")
    /\ LET r == load_csv(fs_locations)
       IN  IF r.raised
           THEN /\ log' = Append(log, "csv_not_found")
                /\ pc' = "raised"
                /\ UNCHANGED locations
           ELSE /\ locations' = r.rows
                /\ pc' = "load_keys"
                /\ UNCHANGED log
    /\ UNCHANGED <<fs_locations, fs_api_keys, MAX_CALLS_PER_KEY, clock, api_keys,
                   row, key_idx, call_count, results, timestamp, data, calls,
                   out_dirs, out_files>>

\* line 63, then the initialisation of lines 65-69
LoadKeys ==
    /\ pc = "load_keys"
    /\ loads' = Append(loads, "api_keys_csv")
    /\ LET r == load_csv(fs_api_keys)
       IN  IF r.raised
           THEN /\ log' = Append(log, "csv_not_found")
                /\ pc' = "raised"
                /\ UNCHANGED <<api_keys, results, key_idx, call_count, timestamp>>
           ELSE /\ api_keys' = r.rows
                /\ results' = <<>>
                /\ key_idx' = 0
                /\ call_count' = 0
                /\ timestamp' = FormatMinute(clock)
                /\ pc' = "for"
                /\ UNCHANGED log
    /\ UNCHANGED <<fs_locations, fs_api_keys, MAX_CALLS_PER_KEY, clock, locations,
                   row, data, calls, out_dirs, out_files>>

\* line 71: the for loop takes the next locality row, or ends
ForNext ==
    /\ pc = "for"
    /\ row < Len(locations)
    /\ row' = row + 1
    /\ pc' = "while"
    /\ UNCHANGED <<fs_locations, fs_api_keys, MAX_CALLS_PER_KEY, clock, locations,
                   api_keys, key_idx, call_count, results, timestamp, data, calls,
                   loads, log, out_dirs, out_files>>

ForEnd ==
    /\ pc = "for"
    /\ row >= Len(locations)
    /\ pc' = "write"
    /\ UNCHANGED <<fs_locations, fs_api_keys, MAX_CALLS_PER_KEY, clock, locations,
                   api_keys, row, key_idx, call_count, results, timestamp, data,
                   calls, loads, log, out_dirs, out_files>>

\* the lines get_weather_data logs for a response
ClientLog(resp) ==
    IF resp.status = 200 THEN <<>>
    ELSE IF resp.status = 429 THEN <<"quota_limit_reached">>
    ELSE IF resp.status = 0 THEN <<"request_error">>
    ELSE <<"http_error">>

\* lines 75-77: the while condition holds and one GET is made
CallApi ==
    /\ pc = "while"
    /\ key_idx < Len(api_keys)
    /\ \E resp \in Responses :
        /\ calls' = Append(calls, [row |-> row, station_id |-> locations[row],
                                   key_idx |-> key_idx, key |-> api_keys[key_idx + 1],
                                   call_count |-> call_count,
                                   n_results |-> Len(results), resp |-> resp])
        /\ data' = get_weather_data(resp)
        /\ log' = log \o ClientLog(resp)
    /\ pc' = "handle"
    /\ UNCHANGED <<fs_locations, fs_api_keys, MAX_CALLS_PER_KEY, clock, locations,
                   api_keys, row, key_idx, call_count, results, timestamp, loads,
                   out_dirs, out_files>>

\* line 75: the while condition fails
WhileExit ==
    /\ pc = "while"
    /\ key_idx >= Len(api_keys)
    /\ pc' = "check"
    /\ UNCHANGED <<fs_locations, fs_api_keys, MAX_CALLS_PER_KEY, clock, locations,
                   api_keys, row, key_idx, call_count, results, timestamp, data,
                   calls, loads, log, out_dirs, out_files>>

Columns ==
    <<"Station ID", "Locality Name", "Latitude", "Longitude", "Observation Datetime",
      "Temperature", "Humidity", "Wind Speed", "Wind Direction", "Rain Intensity",
      "Total Rainfall">>

ColumnSet == {Columns[i] : i \in 1..Len(Columns)}

\* lines 87-99; the metadata and measurement cells are carried as opaque values
Record(station_id, now) ==
    [c \in ColumnSet |->
        CASE c = "Station ID" -> <<"id", station_id>>
          [] c = "Observation Datetime" -> <<"at", now>>
          [] c \in {"Locality Name", "Latitude", "Longitude"} -> <<"row", c>>
          [] OTHER -> <<"w", c>>]

\* variant: the rate-limit branch advances the key without resetting the counter
HandleQuota_NoReset ==
    /\ pc = "handle"
    /\ IsQuotaSignal(data)
    /\ key_idx' = AdvanceKey(key_idx)
    /\ pc' = "while"
    /\ UNCHANGED <<fs_locations, fs_api_keys, MAX_CALLS_PER_KEY, clock, locations,
                   api_keys, row, call_count, results, timestamp, data, calls, loads,
                   log, out_dirs, out_files>>

\* variant: the rate-limit branch leaves the while loop (break for continue)
HandleQuota_Break ==
    /\ pc = "handle"
    /\ IsQuotaSignal(data)
    /\ key_idx' = AdvanceKey(key_idx)
    /\ call_count' = 0
    /\ pc' = "check"
    /\ UNCHANGED <<fs_locations, fs_api_keys, MAX_CALLS_PER_KEY, clock, locations,
                   api_keys, row, results, timestamp, data, calls, loads, log,
                   out_dirs, out_files>>

\* lines 79-82: the rate-limit branch
HandleQuota ==
    /\ pc = "handle"
    /\ IsQuotaSignal(data)
    /\ key_idx' = AdvanceKey(key_idx)
    /\ call_count' = 0
    /\ pc' = "while"
    /\ UNCHANGED <<fs_locations, fs_api_keys, MAX_CALLS_PER_KEY, clock, locations,
                   api_keys, row, results, timestamp, data, calls, loads, log,
                   out_dirs, out_files>>

\* variant: the record is appended but the call counter is not incremented
HandleWeather_NoCount ==
    /\ pc = "handle"
    /\ ~IsQuotaSignal(data)
    /\ HasWeatherSection(data)
    /\ results' = Append(results, Record(locations[row], clock))
    /\ pc' = "ceiling"
    /\ UNCHANGED <<fs_locations, fs_api_keys, MAX_CALLS_PER_KEY, clock, locations,
                   api_keys, row, key_idx, call_count, timestamp, data, calls, loads,
                   log, out_dirs, out_files>>

\* lines 85-101: a record is built and appended
HandleWeather ==
    /\ pc = "handle"
    /\ ~IsQuotaSignal(data)
    /\ HasWeatherSection(data)
    /\ results' = Append(results, Record(locations[row], clock))
    /\ call_count' = call_count + 1
    /\ pc' = "ceiling"
    /\ UNCHANGED <<fs_locations, fs_api_keys, MAX_CALLS_PER_KEY, clock, locations,
                   api_keys, row, key_idx, timestamp, data, calls, loads, log,
                   out_dirs, out_files>>

\* lines 102-103: no data for this station
HandleNoData ==
    /\ pc = "handle"
    /\ ~IsQuotaSignal(data)
    /\ ~HasWeatherSection(data)
    /\ log' = Append(log, "no_data")
    /\ pc' = "ceiling"
    /\ UNCHANGED <<fs_locations, fs_api_keys, MAX_CALLS_PER_KEY, clock, locations,
                   api_keys, row, key_idx, call_count, results, timestamp, data,
                   calls, loads, out_dirs, out_files>>

\* variant: the ceiling rotation wraps around to the first key
Ceiling_Wrap ==
    /\ pc = "ceiling"
    /\ IF CeilingReached(call_count, MAX_CALLS_PER_KEY)
       THEN /\ key_idx' = (key_idx + 1) % Len(api_keys)
            /\ call_count' = 0
       ELSE UNCHANGED <<key_idx, call_count>>
    /\ pc' = "check"
    /\ UNCHANGED <<fs_locations, fs_api_keys, MAX_CALLS_PER_KEY, clock, locations,
                   api_keys, row, results, timestamp, data, calls, loads, log,
                   out_dirs, out_files>>

\* lines 105-109: advance key if needed, then leave the while loop
Ceiling ==
    /\ pc = "ceiling"
    /\ IF CeilingReached(call_count, MAX_CALLS_PER_KEY)
       THEN /\ key_idx' = AdvanceKey(key_idx)
            /\ call_count' = 0
       ELSE UNCHANGED <<key_idx, call_count>>
    /\ pc' = "check"
    /\ UNCHANGED <<fs_locations, fs_api_keys, MAX_CALLS_PER_KEY, clock, locations,
                   api_keys, row, results, timestamp, data, calls, loads, log,
                   out_dirs, out_files>>

\* lines 111-113: stop early when the keys are exhausted
KeysExhausted(k, keys) == k >= Len(keys)

\* variant: the function returns at exhaustion instead of leaving the loop
CheckExhausted_Return ==
    /\ pc = "check"
    /\ KeysExhausted(key_idx, api_keys)
    /\ log' = Append(log, "all_keys_exhausted")
    /\ pc' = "done"
    /\ UNCHANGED <<fs_locations, fs_api_keys, MAX_CALLS_PER_KEY, clock, locations,
                   api_keys, row, key_idx, call_count, results, timestamp, data,
                   calls, loads, out_dirs, out_files>>

CheckExhausted ==
    /\ pc = "check"
    /\ KeysExhausted(key_idx, api_keys)
    /\ log' = Append(log, "all_keys_exhausted")
    /\ pc' = "write"
    /\ UNCHANGED <<fs_locations, fs_api_keys, MAX_CALLS_PER_KEY, clock, locations,
                   api_keys, row, key_idx, call_count, results, timestamp, data,
                   calls, loads, out_dirs, out_files>>

CheckContinue ==
    /\ pc = "check"
    /\ ~KeysExhausted(key_idx, api_keys)
    /\ pc' = "for"
    /\ UNCHANGED <<fs_locations, fs_api_keys, MAX_CALLS_PER_KEY, clock, locations,
                   api_keys, row, key_idx, call_count, results, timestamp, data,
                   calls, loads, log, out_dirs, out_files>>

\* csv.DictWriter: the header line, then one line per record
Fieldnames(recs) == IF recs # <<>> THEN Columns ELSE <<>>

CsvLine(rec, fieldnames) == [j \in 1..Len(fieldnames) |-> rec[fieldnames[j]]]

\* variant: writeheader() is left out
CsvLines_NoHeader(recs) ==
    [i \in 1..Len(recs) |-> CsvLine(recs[i], Fieldnames(recs))]

CsvLines(recs) ==
    <<Fieldnames(recs)>> \o [i \in 1..Len(recs) |-> CsvLine(recs[i], Fieldnames(recs))]

\* line 116: the directory name is formatted when the file is written
OutputDir(now) == FormatDate(now)

\* variant: nothing is written when no record was collected
WriteCsv_SkipEmpty ==
    /\ pc = "write"
    /\ LET date_dir == OutputDir(clock)
           file == [dir |-> date_dir, name |-> timestamp, lines |-> CsvLines(results)]
       IN  IF results = <<>>
           THEN UNCHANGED <<out_dirs, out_files>>
           ELSE /\ out_dirs' = out_dirs \cup {date_dir}
                /\ out_files' = {f \in out_files : <<f.dir, f.name>> # <<date_dir, timestamp>>}
                                    \cup {file}
    /\ log' = Append(log, "wrote")
    /\ pc' = "done"
    /\ UNCHANGED <<fs_locations, fs_api_keys, MAX_CALLS_PER_KEY, clock, locations,
                   api_keys, row, key_idx, call_count, results, timestamp, data,
                   calls, loads>>

\* lines 115-127; open(out_file, 'w') replaces a file of the same path
WriteCsv ==
    /\ pc = "write"
    /\ LET date_dir == OutputDir(clock)
           file == [dir |-> date_dir, name |-> timestamp, lines |-> CsvLines(results)]
       IN  /\ out_dirs' = out_dirs \cup {date_dir}
           /\ out_files' = {f \in out_files : <<f.dir, f.name>> # <<date_dir, timestamp>>}
                               \cup {file}
    /\ log' = Append(log, "wrote")
    /\ pc' = "done"
    /\ UNCHANGED <<fs_locations, fs_api_keys, MAX_CALLS_PER_KEY, clock, locations,
                   api_keys, row, key_idx, call_count, results, timestamp, data,
                   calls, loads>>

Step ==
    \/ LoadLocations
    \/ LoadKeys
    \/ ForNext
    \/ ForEnd
    \/ CallApi
    \/ WhileExit
    \/ HandleQuota
    \/ HandleWeather
    \/ HandleNoData
    \/ Ceiling
    \/ CheckExhausted
    \/ CheckContinue
    \/ WriteCsv

Next == Step \/ Tick

Spec == Init /\ [][Next]_vars

\* the interpreter keeps running the process until it returns or raises
FairSpec == Spec /\ WF_vars(Step)

----------------------------------------------------------------------------
(* Vocabulary of the properties: the outcome of a logged call, as the       *)
(* Weather Client contract classifies HTTP responses                        *)

RateLimited(c) == c.resp.status = 429
Failure(c) == c.resp.status \notin {200, 429}
Success(c) == c.resp.status = 200
SuccessWithWeather(c) == Success(c) /\ c.resp.body = WeatherBody
SuccessWithoutWeather(c) == Success(c) /\ c.resp.body = NoSectionBody
NoData(c) == Failure(c) \/ SuccessWithoutWeather(c)

NumKeys == Len(api_keys)
NumLocalities == Len(locations)
LastCall == calls[Len(calls)]
StationOf(rec) == rec["Station ID"][2]

\* number of calls among the first j that appended a record using key k
RecordsOnKey(k, j) ==
    Cardinality({i \in 1..j : calls[i].key_idx = k /\ SuccessWithWeather(calls[i])})

----------------------------------------------------------------------------
\* C1: during a run the key index never decreases and changes only in steps
\* of +1; the keys of successive HTTP calls have non-decreasing indices, so
\* no key is used after a key with a higher index has been used.
C1_KeyIndexMonotone ==
    /\ [][key_idx' = key_idx \/ key_idx' = key_idx + 1]_vars
    /\ [](\A i, j \in 1..Len(calls) : i < j => calls[i].key_idx <= calls[j].key_idx)

\* a run that rotated by a 429 and by the ceiling, and called with two keys
C1_Witness ==
    /\ key_idx = 2
    /\ Len(calls) = 2
    /\ RateLimited(calls[1])
    /\ SuccessWithWeather(calls[2])
    /\ calls[1].key_idx < calls[2].key_idx

\* C2: each RateLimited (HTTP 429) outcome advances the key index by exactly
\* one and resets the call counter to 0, and the next HTTP call, made when a
\* key remains, is for the same locality with the new key.  If the first M
\* calls are RateLimited and call M+1 returns weather data, the key index is M
\* when the first record is appended, and the record is the first locality's.
C2_RateLimitRotation ==
    /\ [][(pc = "handle" /\ pc' # "handle" /\ RateLimited(LastCall))
            => /\ key_idx' = key_idx + 1
               /\ call_count' = 0
               /\ row' = row
               /\ results' = results
               /\ pc' = "while"]_vars
    /\ [][(pc = "while" /\ calls # <<>> /\ RateLimited(LastCall)
              /\ key_idx < NumKeys /\ pc' # pc)
            => /\ Len(calls') = Len(calls) + 1
               /\ calls'[Len(calls')].row = LastCall.row
               /\ calls'[Len(calls')].key_idx = LastCall.key_idx + 1]_vars
    /\ [](\A i \in 1..(Len(calls) - 1) :
            RateLimited(calls[i]) => /\ calls[i + 1].row = calls[i].row
                                     /\ calls[i + 1].key_idx = calls[i].key_idx + 1)
    /\ []((/\ pc = "ceiling"
           /\ calls # <<>>
           /\ SuccessWithWeather(LastCall)
           /\ \A i \in 1..(Len(calls) - 1) : RateLimited(calls[i]))
            => /\ key_idx = Len(calls) - 1
               /\ Len(results) = 1
               /\ StationOf(results[1]) = locations[1]
               /\ LastCall.row = 1)

\* one 429 on the first key, then weather data with the second key: the
\* first record has just been appended
C2_Witness ==
    /\ pc = "ceiling"
    /\ Len(calls) = 2
    /\ RateLimited(calls[1])
    /\ SuccessWithWeather(calls[2])
    /\ calls[2].row = calls[1].row
    /\ Len(results) = 1

\* the j-th call is the one that appended the C-th record of its key
ReachesCeiling(j) ==
    /\ SuccessWithWeather(calls[j])
    /\ RecordsOnKey(calls[j].key_idx, j) = MAX_CALLS_PER_KEY

\* C3: once C records have been appended on one key (C the per-key ceiling),
\* the key index is advanced by one and the call counter reset to 0 before the
\* next HTTP call, and the next call, if any, uses the following key.
C3_CeilingRotation ==
    /\ [][(pc = "ceiling" /\ pc' # "ceiling" /\ ReachesCeiling(Len(calls)))
            => /\ key_idx' = key_idx + 1
               /\ call_count' = 0]_vars
    /\ []((pc \in {"check", "for", "while", "write", "done"} /\ calls # <<>>
              /\ ReachesCeiling(Len(calls)))
            => /\ key_idx = LastCall.key_idx + 1
               /\ call_count = 0)
    /\ [](\A j \in 1..(Len(calls) - 1) :
            ReachesCeiling(j) => calls[j + 1].key_idx = calls[j].key_idx + 1)

\* ceiling 2: two records on the first key, rotation done, no call made since
C3_Witness ==
    /\ MAX_CALLS_PER_KEY = 2
    /\ pc = "for"
    /\ Len(calls) = 2
    /\ SuccessWithWeather(calls[1])
    /\ SuccessWithWeather(calls[2])
    /\ calls[1].key_idx = 0
    /\ calls[2].key_idx = 0
    /\ key_idx = 1
    /\ NumKeys = 2

\* C4: for any configured ceiling value, a call whose outcome is Failure or
\* Success without the weather section appends no record and leaves the key
\* index and the call counter unchanged, and processing moves to the next
\* locality.
C4_NoDataSkip ==
    /\ (pc = "check" /\ calls # <<>> /\ NoData(LastCall))
        => /\ Len(results) = LastCall.n_results
           /\ key_idx = LastCall.key_idx
           /\ call_count = LastCall.call_count
    /\ \A i \in 1..(Len(calls) - 1) :
        NoData(calls[i]) => calls[i + 1].row = calls[i].row + 1

\* the records collected, as station ids in order
ResultStations == [i \in 1..Len(results) |-> StationOf(results[i])]

\* the station ids of the calls that returned weather data, in order
SuccessfulCalls == SelectSeq(calls, SuccessWithWeather)
SuccessStations == [i \in 1..Len(SuccessfulCalls) |-> SuccessfulCalls[i].station_id]

\* the station ids of the data lines of a written file
FileStations(f) == [i \in 1..(Len(f.lines) - 1) |-> f.lines[i + 1][1][2]]

Loaded == pc \notin {"load_locations", "load_keys", "raised"}

\* C5: once the key index has reached the number of keys while localities
\* remain, no further HTTP call is made, no remaining locality is attempted,
\* and the output written holds exactly the records collected up to then.
C5_ExhaustionHalts ==
    /\ [][(Loaded /\ key_idx >= NumKeys)
            => /\ calls' = calls
               /\ results' = results
               /\ (calls # <<>> => row' = row)]_vars
    /\ []((pc = "done" /\ key_idx >= NumKeys)
            => /\ Cardinality(out_files) = 1
               /\ \A f \in out_files :
                    /\ f.lines = CsvLines(results)
                    /\ FileStations(f) = SuccessStations)

\* one key with ceiling 1: the first locality's record rotates past the last
\* key, the second locality is never called, and the one record is written
C5_Witness ==
    /\ pc = "done"
    /\ key_idx >= NumKeys
    /\ row < NumLocalities
    /\ Len(calls) = 1
    /\ Len(results) = 1
    /\ \E f \in out_files : Len(f.lines) = 2

\* the value get_weather_data returned for the call is the rate-limit outcome
ReturnedRateLimited(c) == IsQuotaSignal(get_weather_data(c.resp))

\* C6: every (locality, key) pair is called at most once in a run; a locality
\* receives a second or later call only if its immediately preceding call
\* returned RateLimited; after a Failure the next call, if any, is for the
\* next locality with the same key.
C6_FailuresNotRetried ==
    /\ \A i, j \in 1..Len(calls) :
        i < j => <<calls[i].row, calls[i].key_idx>> # <<calls[j].row, calls[j].key_idx>>
    /\ \A i \in 2..Len(calls) :
        calls[i].row = calls[i - 1].row => ReturnedRateLimited(calls[i - 1])
    /\ \A i \in 1..(Len(calls) - 1) :
        Failure(calls[i]) => /\ calls[i + 1].row = calls[i].row + 1
                             /\ calls[i + 1].key_idx = calls[i].key_idx

IsStrictlyIncreasing(seq) == \A i, j \in 1..Len(seq) : i < j => seq[i] < seq[j]

\* C7: the written file holds a header line followed by one line per record
\* (N records give N + 1 lines) in collection order; the lines' station ids
\* are those of the localities whose calls returned weather data, in the order
\* the localities were processed and at most one per locality row, so they
\* form an order-preserving subsequence of the locality list.
C7_OutputShapeAndOrder ==
    /\ pc # "handle" => ResultStations = SuccessStations
    /\ IsStrictlyIncreasing([i \in 1..Len(SuccessfulCalls) |-> SuccessfulCalls[i].row])
    /\ \A i \in 1..Len(SuccessfulCalls) :
        SuccessfulCalls[i].station_id = locations[SuccessfulCalls[i].row]
    /\ \A f \in out_files :
        /\ Len(f.lines) = Len(results) + 1
        /\ f.lines[1] = (IF results = <<>> THEN <<>> ELSE Columns)
        /\ FileStations(f) = ResultStations
        /\ \A i \in 1..Len(results) : \A j \in 1..Len(Columns) :
            f.lines[i + 1][j] = results[i][Columns[j]]
    /\ pc = "done" => out_files # {}

\* a run with a rotation in it that wrote two records
C7_Witness ==
    /\ pc = "done"
    /\ Len(results) = 2
    /\ Len(calls) = 3
    /\ \E f \in out_files : Len(f.lines) = 3 /\ FileStations(f) = locations

\* C8: once both tables have loaded, every run, whatever the client outcomes
\* and the numbers L of localities and K of keys, terminates after at most
\* L + K HTTP calls and writes exactly one output file, also when no record
\* was collected and when the run ended by key exhaustion.
C8_TerminatesWithOneFile ==
    /\ [](Len(calls) <= Len(fs_locations.rows) + Len(fs_api_keys.rows))
    /\ [](Loaded => <>(pc = "done"))
    /\ [](Cardinality(out_files) <= 1)
    /\ [](pc = "done" => Cardinality(out_files) = 1)

\* a finished run that ended by key exhaustion with no record collected
C8_Witness ==
    /\ pc = "done"
    /\ results = <<>>
    /\ key_idx >= NumKeys
    /\ NumKeys = 2
    /\ NumLocalities = 2
    /\ Len(calls) = 3
    /\ \E f \in out_files : f.lines = <<<<>>>>

InputMissing == ~fs_locations.exists \/ ~fs_api_keys.exists

\* C9: if the locality file or the key file is missing, the run fails with the
\* loader's error before any HTTP call is made, no output directory or file
\* is written, and the failing load is not retried.
C9_MissingInputIsFatal ==
    /\ [](InputMissing
            => /\ ~Loaded
               /\ calls = <<>>
               /\ out_dirs = {}
               /\ out_files = {}
               /\ \A i, j \in 1..Len(loads) : i < j => loads[i] # loads[j])
    /\ [](pc = "raised" => (InputMissing /\ log = <<"csv_not_found">>))
    /\ [](InputMissing => <>(pc = "raised"))

\* the locality table loaded, the key file was missing, and the run has failed
C9_Witness ==
    /\ pc = "raised"
    /\ fs_locations.exists
    /\ ~fs_api_keys.exists
    /\ loads = <<"locations_csv", "api_keys_csv">>

\* C10: the output directory is named by the run's start date: the YYYYMMDD
\* of the directory equals the YYYYMMDD part of the file-name timestamp taken
\* at the start of the run, however long the run lasts.
C10_DirNamedByStartDate ==
    \A f \in out_files : f.dir = DatePart(f.name)

\* the "All API keys exhausted; stopping early." error has been logged
ExhaustionLogged == \E i \in 1..Len(log) : log[i] = "all_keys_exhausted"

\* some locality row has had no HTTP call made for it
LocalitiesUnattempted ==
    \E r \in 1..NumLocalities : \A i \in 1..Len(calls) : calls[i].row # r

\* C11: the key-exhaustion error is logged exactly when the key index has
\* reached the number of keys while localities remain unattempted; a run in
\* which the keys run out only with the last locality's call logs no
\* exhaustion error.  (Stated for ceilings of at least 1.)
C11_ExhaustionErrorOnlyWhenCutShort ==
    (pc = "done" /\ MAX_CALLS_PER_KEY >= 1)
        => (ExhaustionLogged <=> (key_idx >= NumKeys /\ LocalitiesUnattempted))

\* number of HTTP calls made with key k
CallsOnKey(k) == Cardinality({i \in 1..Len(calls) : calls[i].key_idx = k})

\* C12 as stated: for a ceiling C >= 1 the number of HTTP calls made with any
\* single key never exceeds C, whatever the outcomes of those calls.
C12_CallsPerKeyWithinCeiling ==
    MAX_CALLS_PER_KEY >= 1
        => \A k \in 0..(NumKeys - 1) : CallsOnKey(k) <= MAX_CALLS_PER_KEY

\* C12 as amended: for a ceiling C >= 1 the number of HTTP calls made with any
\* single key that returned weather data (appended a record) never exceeds C.
C12_RecordsPerKeyWithinCeiling ==
    MAX_CALLS_PER_KEY >= 1
        => \A k \in 0..(NumKeys - 1) : RecordsOnKey(k, Len(calls)) <= MAX_CALLS_PER_KEY

\* ceiling 1: a failed call and then a record, both with the first key, after
\* which the key has been rotated
C12_Witness ==
    /\ MAX_CALLS_PER_KEY = 1
    /\ pc = "check"
    /\ Len(calls) = 2
    /\ Failure(calls[1])
    /\ SuccessWithWeather(calls[2])
    /\ calls[1].key_idx = 0
    /\ calls[2].key_idx = 0
    /\ key_idx = 1

AllCallsSucceeded == \A i \in 1..Len(calls) : SuccessWithWeather(calls[i])

Min(a, b) == IF a <= b THEN a ELSE b

\* C13: when every call returns Success with a weather section, with L
\* localities, K keys and ceiling C >= 1, the i-th locality (0-based) is
\* fetched with key floor(i / C), exactly min(L, K * C) localities are fetched
\* and give one record each, and the key index stays 0 whenever L < C.
C13_AllSuccessSchedule ==
    (MAX_CALLS_PER_KEY >= 1 /\ AllCallsSucceeded)
        => /\ \A j \in 1..Len(calls) :
                /\ calls[j].row = j
                /\ calls[j].key_idx = (j - 1) \div MAX_CALLS_PER_KEY
           /\ pc = "done"
                => /\ Len(calls) = Min(NumLocalities, NumKeys * MAX_CALLS_PER_KEY)
                   /\ Len(results) = Len(calls)
                   /\ ResultStations = SubSeq(locations, 1, Len(calls))
           /\ NumLocalities < MAX_CALLS_PER_KEY => key_idx = 0

\* ceiling 1, two keys, two localities, both calls successful: the second
\* locality was fetched with the second key and both records were written
C13_Witness ==
    /\ pc = "done"
    /\ MAX_CALLS_PER_KEY = 1
    /\ NumLocalities = 2
    /\ NumKeys = 2
    /\ AllCallsSucceeded
    /\ Len(calls) = 2
    /\ calls[2].key_idx = 1
    /\ Len(results) = 2

\* the loop is back at the while head for the locality of the last call: the
\* rate-limit path (advance the key, retry the same locality) has been taken
RetryingInPlace == pc = "while" /\ calls # <<>> /\ LastCall.row = row

\* C14: only HTTP 429 is treated as the rate-limit signal: a response with
\* status 200 is classified as Success whatever its decoded body, so the
\* rate-limit path (advance the key, retry the same locality) is taken only
\* after a 429.
C14_OnlyStatus429RateLimits ==
    /\ RetryingInPlace => RateLimited(LastCall)
    /\ \A i \in 2..Len(calls) :
        calls[i].row = calls[i - 1].row => RateLimited(calls[i - 1])

\* C15: in every reachable state 0 <= key index <= number of keys; every HTTP
\* call is made with a key index below the number of keys; and for a ceiling
\* C >= 1 the call counter is at least 0 and below C at every HTTP call and
\* equals the number of records appended with the current key.
C15_StateRange ==
    /\ 0 <= key_idx
    /\ key_idx <= NumKeys
    /\ \A j \in 1..Len(calls) : 0 <= calls[j].key_idx /\ calls[j].key_idx < NumKeys
    /\ MAX_CALLS_PER_KEY >= 1
        => /\ \A j \in 1..Len(calls) :
                /\ 0 <= calls[j].call_count
                /\ calls[j].call_count < MAX_CALLS_PER_KEY
                /\ calls[j].call_count = RecordsOnKey(calls[j].key_idx, j - 1)
           /\ pc # "handle" => call_count = RecordsOnKey(key_idx, Len(calls))

\* ceiling 2: the second call is made with the first key and a counter of 1,
\* after one record on that key
C15_Witness ==
    /\ MAX_CALLS_PER_KEY = 2
    /\ pc = "handle"
    /\ Len(calls) = 2
    /\ SuccessWithWeather(calls[1])
    /\ calls[2].key_idx = 0
    /\ calls[2].call_count = 1
    /\ NumKeys = 1

====
